---- MODULE Spec2Model ----
(***************************************************************************)
(* Model of the plugin execution lifecycle of api_app/classes.py           *)
(* (class Plugin): start -> config -> before_run -> run -> outcome handler *)
(* -> after_run, the report kept in memory (self.report) and the row the   *)
(* report store holds, and the rate-limit circuit breaker.                 *)
(*                                                                         *)
(* Plugin-supplied code (the parameter resolution used by config, and the  *)
(* hooks before_run and run) may return or raise; what it returns or       *)
(* raises is an input drawn from small sets.  SoftTimeLimitExceeded is     *)
(* one of the exceptions that code may raise (billiard delivers it while   *)
(* the task's code runs).  Only subclasses of Exception are raised.        *)
(***************************************************************************)
EXTENDS Integers, Sequences, FiniteSets, TLC

VARIABLES
    pc,            \* position of start(): which call comes next
    STAGE_CI,      \* settings.STAGE_CI (strict verification mode)
    membership,    \* self._user.has_membership()
    rate_limit_timeout, \* org_configuration.rate_limit_timeout: Null or <<seconds>>
    job_id,        \* self._job_id
    report,        \* self.report, the in-memory report object
    db,            \* the row of the report store
    parameters,    \* self.__parameters: [bound, list]
    attrs,         \* instance attributes bound by config(): set of <<name, value>>
    result,        \* _result of start()
    exc,           \* the exception in flight inside start()
    raised,        \* the exception that left start(), NoExc if it returned
    try_raised,    \* the exception the try-block raised, NoExc if none
    calls,         \* the calls made so far in this execution, in order
    logs,          \* the records written to the logger by the failure handler
    end_time_sets, \* number of assignments to report.end_time in this execution
    disable_calls, \* number of calls of org_configuration.disable_for_rate_limit()
    org_disabled,  \* state of the organization configuration
    clock,         \* timezone.now()
    health,        \* a call of health_check(): its inputs, position and outcome
    engine,        \* a run of the task execute_engine_module
    breakers       \* concurrent executions inside disable_for_rate_limit()

\* the variables of start()
lifecycle == <<pc, membership, rate_limit_timeout, job_id, report, db,
               parameters, attrs, result, exc, raised, try_raised, calls, logs,
               end_time_sets, disable_calls, org_disabled, clock>>

\* the variables of the other entry points
others == <<health, engine, breakers>>

vars == <<pc, STAGE_CI, membership, rate_limit_timeout, job_id, report, db,
          parameters, attrs, result, exc, raised, try_raised, calls, logs,
          end_time_sets, disable_calls, org_disabled, clock,
          health, engine, breakers>>

(***************************************************************************)
(* Bounds                                                                  *)
(***************************************************************************)
MaxParams == 2
MaxList == 2
NProcs == 2

(***************************************************************************)
(* Characters and text.  A str is a sequence of one-character strings.     *)
(***************************************************************************)
Null == <<>>

RECURSIVE Contains(_, _)
\* Python's  sub in s  (and the ORM's name__contains), on character sequences
Contains(s, sub) ==
    IF Len(sub) > Len(s) THEN FALSE
    ELSE IF SubSeq(s, 1, Len(sub)) = sub THEN TRUE
    ELSE Contains(Tail(s), sub)

ApiKeyText == <<"a", "p", "i", "_", "k", "e", "y">>
ApiKeyName == ApiKeyText \o <<"_", "n", "a", "m", "e">>
UrlName == <<"u", "r", "l">>

(***************************************************************************)
(* Exceptions.  cls is the class, response the HTTP response an HTTPError  *)
(* carries (Null: response is None), msg the text str(e) yields.           *)
(***************************************************************************)
NoExc == [cls |-> "None", response |-> Null, msg |-> ""]

Exc(cls, response, msg) == [cls |-> cls, response |-> response, msg |-> msg]

DeclaredError == Exc("AnalyzerRunException", Null, "malformed target")
TimeoutError == Exc("SoftTimeLimitExceeded", Null, "SoftTimeLimitExceeded()")
Http429 == Exc("HTTPError", <<429>>, "429 Client Error: Too Many Requests")
Http500 == Exc("HTTPError", <<500>>, "500 Server Error")
HttpNoResponse == Exc("HTTPError", Null, "connection dropped")
UnexpectedError == Exc("ValueError", Null, "invalid literal")
AttributeError == Exc("AttributeError", Null, "object has no attribute '_Plugin__parameters'")
DoesNotExist == Exc("DoesNotExist", Null, "Job matching query does not exist.")
DatabaseError == Exc("DatabaseError", Null, "could not save")

\* what plugin-supplied code may raise
RunErrors == {DeclaredError, TimeoutError, Http429, Http500, HttpNoResponse, UnexpectedError}

\* str(e)
Str(e) == e.msg

\* get_exceptions_to_catch(): the allow-list the concrete plugin declares
get_exceptions_to_catch == {"AnalyzerRunException"}

\* variant: every HTTP error is routed to the circuit breaker
IsRateLimitAnyHttpError(e) == e.cls = "HTTPError"

\* the condition of after_run_failed that routes to the circuit breaker
IsRateLimit(e) ==
    /\ e.cls = "HTTPError"
    /\ e.response # Null          \* hasattr(e.response, "status_code")
    /\ e.response[1] = 429

(***************************************************************************)
(* Parameters resolved by read_configured_params.                          *)
(***************************************************************************)
Parameter(name, value, is_secret, required, is_from_org) ==
    [name |-> name, value |-> value, is_secret |-> is_secret,
     required |-> required, is_from_org |-> is_from_org]

ParameterUniverse ==
    { Parameter(UrlName, "http://probe", FALSE, FALSE, FALSE),
      Parameter(ApiKeyName, "key", TRUE, TRUE, TRUE),      \* organization key
      Parameter(ApiKeyName, "key", TRUE, TRUE, FALSE),     \* personal, required, set
      Parameter(ApiKeyName, "key", TRUE, FALSE, FALSE),    \* personal, optional, set
      Parameter(ApiKeyName, "", TRUE, FALSE, FALSE),       \* optional, not set
      Parameter(ApiKeyName, "", TRUE, TRUE, FALSE) }       \* required, empty

SeqsUpTo(S, n) == UNION { [1..k -> S] : k \in 0..n }

ParamSets == SeqsUpTo(ParameterUniverse, MaxParams)

Unbound == [bound |-> FALSE, list |-> <<>>]

\* QuerySet.filter(name__contains="api_key")
FilterApiKey(ps) == SelectSeq(ps, LAMBDA p : Contains(p.name, ApiKeyText))

(***************************************************************************)
(* Result payloads of run() and base64.                                    *)
(***************************************************************************)
B64Alphabet ==
    << "A","B","C","D","E","F","G","H","I","J","K","L","M","N","O","P",
       "Q","R","S","T","U","V","W","X","Y","Z","a","b","c","d","e","f",
       "g","h","i","j","k","l","m","n","o","p","q","r","s","t","u","v",
       "w","x","y","z","0","1","2","3","4","5","6","7","8","9","+","/" >>

B64Char(i) == B64Alphabet[i + 1]

RECURSIVE B64(_)
\* base64.b64encode(bytes).decode("utf-8")
B64(bytes) ==
    IF Len(bytes) = 0 THEN <<>>
    ELSE IF Len(bytes) = 1 THEN
        LET n == bytes[1] * 65536
        IN  << B64Char(n \div 262144), B64Char((n \div 4096) % 64), "=", "=" >>
    ELSE IF Len(bytes) = 2 THEN
        LET n == bytes[1] * 65536 + bytes[2] * 256
        IN  << B64Char(n \div 262144), B64Char((n \div 4096) % 64),
               B64Char((n \div 64) % 64), "=" >>
    ELSE
        LET n == bytes[1] * 65536 + bytes[2] * 256 + bytes[3]
        IN  << B64Char(n \div 262144), B64Char((n \div 4096) % 64),
               B64Char((n \div 64) % 64), B64Char(n % 64) >>
            \o B64(SubSeq(bytes, 4, Len(bytes)))

FileEntry(bytes) == [t |-> "File", data |-> bytes]
BytesEntry(bytes) == [t |-> "bytes", data |-> bytes]
StrEntry(chars) == [t |-> "str", data |-> chars]

Entries ==
    { FileEntry(<<77, 97, 110, 33>>), BytesEntry(<<77, 97>>),
      StrEntry(<<"o", "k">>) }

ListContent(items) == [t |-> "list", items |-> items]
DictContent == [t |-> "dict", items |-> <<>>]
NoResult == [t |-> "none", items |-> <<>>]

\* a bare str, such as the json.dumps(result) that Bbot.run returns
StrContent == [t |-> "str", items |-> << StrEntry(<<"{", "}">>) >>]

\* what run() may return: a list, a dict or a str
Contents ==
    { ListContent(items) : items \in SeqsUpTo(Entries, MaxList) }
    \cup { DictContent, StrContent }

\* variant: the bytes branch of the loop is missing
NormalizeEntryFilesOnly(n) ==
    IF n.t = "File" THEN StrEntry(B64(n.data)) ELSE n

\* one iteration of the loop of after_run_success
NormalizeEntry(n) ==
    IF n.t = "File" THEN StrEntry(B64(n.data))        \* n.read()
    ELSE IF n.t = "bytes" THEN StrEntry(B64(n.data))
    ELSE n

\* report_content of after_run_success
Normalize(content) ==
    IF content.t = "list"
    THEN ListContent([i \in 1..Len(content.items) |-> NormalizeEntry(content.items[i])])
    ELSE content


(***************************************************************************)
(* The job store, the report store and the organization configuration.     *)
(***************************************************************************)
\* Job.objects.get(pk=...): jobs 7 and 8 exist, job 9 does not
ExistingJobs == {7, 8}
JobIds == ExistingJobs \cup {9}
TaskIds == {"task-a"}

\* variant: a lookup that never raises (filter(...).first())
job_lookup_never_raises(j) == TRUE

\* self._job: Job.objects.get(pk=self.job_id) returns (FALSE: raises DoesNotExist)
job_lookup(j) == j \in ExistingJobs

\* self._user.has_membership(): the user of job 7 is in an organization
has_membership(job) == job = 7

RateLimitTimeouts == {Null, <<3600>>}

EmptyContent == [t |-> "empty", items |-> <<>>]
NoReport == [status |-> "NONE", report |-> EmptyContent, errors |-> <<>>,
             task_id |-> "", start_time |-> Null, end_time |-> Null]

\* self._config.generate_empty_report(job, task_id, status)
generate_empty_report(task_id, status, now) ==
    [status |-> status, report |-> EmptyContent, errors |-> <<>>,
     task_id |-> task_id, start_time |-> <<now>>, end_time |-> Null]

AllFields == {"status", "report", "errors", "task_id", "start_time", "end_time"}

\* self.report.save(update_fields=fields): the row takes the fields named
Save(row, obj, fields) ==
    [status |-> IF "status" \in fields THEN obj.status ELSE row.status,
     report |-> IF "report" \in fields THEN obj.report ELSE row.report,
     errors |-> IF "errors" \in fields THEN obj.errors ELSE row.errors,
     task_id |-> IF "task_id" \in fields THEN obj.task_id ELSE row.task_id,
     start_time |-> IF "start_time" \in fields THEN obj.start_time ELSE row.start_time,
     end_time |-> IF "end_time" \in fields THEN obj.end_time ELSE row.end_time]

(***************************************************************************)
(* config(): the attributes setattr binds, a secret under "_" + name.      *)
(***************************************************************************)
AttributeName(p) == IF p.is_secret THEN <<"_">> \o p.name ELSE p.name

RECURSIVE BindAttributes(_, _)
BindAttributes(bound, ps) ==
    IF ps = <<>> THEN bound
    ELSE LET p == Head(ps)
             kept == { a \in bound : a.name # AttributeName(p) }
         IN  BindAttributes(kept \cup {[name |-> AttributeName(p), value |-> p.value]},
                            Tail(ps))

(***************************************************************************)
(* log_error and get_error_message                                         *)
(***************************************************************************)
\* get_error_message(err, is_base_err)
get_error_message(e, is_base_err) ==
    [text |-> IF is_base_err THEN "Unexpected error" ELSE "config_model error",
     err |-> Str(e)]

\* variant: only the allow-list and the soft time limit count as expected
log_error_without_http(e) ==
    IF e.cls \in get_exceptions_to_catch \cup {"SoftTimeLimitExceeded"}
    THEN [level |-> "error", traceback |-> FALSE, message |-> get_error_message(e, FALSE)]
    ELSE [level |-> "exception", traceback |-> TRUE, message |-> get_error_message(e, TRUE)]

\* log_error(e): the record written, with its level
log_error(e) ==
    IF e.cls \in get_exceptions_to_catch \cup {"SoftTimeLimitExceeded", "HTTPError"}
    THEN [level |-> "error", traceback |-> FALSE, message |-> get_error_message(e, FALSE)]
    ELSE [level |-> "exception", traceback |-> TRUE, message |-> get_error_message(e, TRUE)]

(***************************************************************************)
(* disable_for_rate_limit(): what the circuit breaker decides.             *)
(* raises: the exception it raises (NoExc: it returns); disable: whether   *)
(* org_configuration.disable_for_rate_limit() is called.                   *)
(***************************************************************************)
Breaker(raises, disable, note) == [raises |-> raises, disable |-> disable, note |-> note]

\* variant: only the absence of an api key parameter lets the breaker disable
NoPersonalKeyOnlyIfAbsent(ps) == FilterApiKey(ps) = <<>>

\* variant: a key counts as personal only when it is both required and set
NoPersonalKeyRequiredAndSupplied(ps) ==
    LET keys == FilterApiKey(ps)
    IN  \/ keys = <<>>
        \/ keys[1].is_from_org
        \/ ~(keys[1].required /\ keys[1].value # "")

\* the condition of lines 429-433 on .filter(name__contains="api_key").first()
NoPersonalKey(ps) ==
    LET keys == FilterApiKey(ps)
    IN  \/ keys = <<>>                                      \* not api_key_parameter
        \/ keys[1].is_from_org
        \/ (~keys[1].required /\ keys[1].value = "")

\* the records disable_for_rate_limit writes to the logger: line 418, then the
\* warning of line 436 or 440 or the info of line 445
BreakerLogs(b) ==
    << [level |-> "info", traceback |-> FALSE,
        message |-> [text |-> "Trying to disable for rate limit", err |-> ""]] >>
    \o (IF b.note \in {"personal key", "no timeout"}
        THEN << [level |-> "warning", traceback |-> FALSE,
                 message |-> [text |-> b.note, err |-> ""]] >>
        ELSE IF b.note = "not in organization"
        THEN << [level |-> "info", traceback |-> FALSE,
                 message |-> [text |-> b.note, err |-> ""]] >>
        ELSE <<>>)

\* variant: the timeout of the organization configuration is not looked at
disable_for_rate_limit_any_timeout(member, timeout, params) ==
    IF member
    THEN IF ~params.bound
         THEN Breaker(AttributeError, FALSE, "none")
         ELSE IF NoPersonalKey(params.list)
              THEN Breaker(NoExc, TRUE, "disabled")
              ELSE Breaker(NoExc, FALSE, "personal key")
    ELSE Breaker(NoExc, FALSE, "not in organization")

disable_for_rate_limit(member, timeout, params) ==
    IF member
    THEN IF timeout # Null
         THEN IF ~params.bound
              THEN Breaker(AttributeError, FALSE, "none")   \* self.__parameters was never set
              ELSE IF NoPersonalKey(params.list)
                   THEN Breaker(NoExc, TRUE, "disabled")
                   ELSE Breaker(NoExc, FALSE, "personal key")
         ELSE Breaker(NoExc, FALSE, "no timeout")
    ELSE Breaker(NoExc, FALSE, "not in organization")


(***************************************************************************)
(* The bodies of the outcome handlers and of after_run.                    *)
(***************************************************************************)
\* after_run_success, lines 194-206: what it assigns to self.report
after_run_success_report(r, content) ==
    [r EXCEPT !.report = Normalize(content), !.status = "SUCCESS"]

\* variant: save() without update_fields, the whole row is written
SuccessFieldsAll == AllFields

\* after_run_success, line 207: update_fields
SuccessFields == {"status", "report"}

\* variant: the error list is overwritten instead of appended to
after_run_failed_overwrites(r, e) ==
    [r EXCEPT !.errors = <<Str(e)>>, !.status = "FAILED"]

\* after_run_failed, lines 233-234: what it assigns to self.report
after_run_failed_report(r, e) ==
    [r EXCEPT !.errors = Append(@, Str(e)), !.status = "FAILED"]

\* variant: the status is left out of update_fields
FailedFieldsErrorsOnly == {"errors"}

\* after_run_failed, line 235: update_fields
FailedFields == {"status", "errors"}

\* variant: the save placed after the breaker and the logging
after_run_failed_saves_last(row, obj, handler_raised) ==
    IF handler_raised # NoExc THEN row ELSE Save(row, obj, FailedFields)

\* after_run_failed, line 235, which precedes lines 236-243: the row is written
\* whatever the breaker or log_error does next (handler_raised: what they raise)
after_run_failed_row(row, obj, handler_raised) == Save(row, obj, FailedFields)

\* org_configuration.disable_for_rate_limit(): the configuration is disabled,
\* whatever it was before
org_configuration_disable(disabled) == TRUE

\* after_run, line 183
after_run_report(r, now) == [r EXCEPT !.end_time = <<now>>]

\* variant: the handler re-raises whatever the mode
ReraiseAlways(stage_ci, e) == e

\* after_run_failed, lines 244-245: what the handler raises once it has recorded e
Reraise(stage_ci, e) == IF stage_ci THEN e ELSE NoExc

(***************************************************************************)
(* The control flow of start(), lines 295-305.                             *)
(***************************************************************************)
\* variant: an except clause that names only the declared exceptions
ExceptDeclaredOnly(e) ==
    IF e.cls \in get_exceptions_to_catch THEN "after_run_failed" ELSE "after_run"

\* except Exception as e: every exception of the try block goes to the handler
ExceptTarget(e) == "after_run_failed"

\* variant: no else clause, a returning try block goes straight to finally
ElseSkipsHandler == "after_run"

\* else: the try block ended without an exception
ElseTarget == "after_run_success"

\* variant: after_run() placed after the try statement instead of in finally
FinallySkippedOnException(pending) == IF pending # NoExc THEN "done" ELSE "after_run"

\* variant: the success handler placed after the try statement (no else:)
FinallyMissingElse(pending) == IF pending = NoExc THEN "after_run_success" ELSE "after_run"

\* finally: entered after either handler, with or without an exception in flight
FinallyTarget(pending) == "after_run"

\* leave the current step for target, with pending in flight
Goto(target, pending) ==
    /\ pc' = target
    /\ exc' = pending
    /\ raised' = IF target = "done" THEN pending ELSE raised

\* an exception e leaves the try block
RaiseInTry(e) ==
    /\ try_raised' = e
    /\ IF ExceptTarget(e) = "after_run_failed"
       THEN Goto("after_run_failed", e)
       ELSE Goto(FinallyTarget(e), e)

(***************************************************************************)
(* Initial state: a plugin instance has just been constructed.             *)
(***************************************************************************)
\* nothing but start() is called
NoHealthCheck == [pc |-> "none"]
NoEngineTask == [pc |-> "none"]
NoBreakers == [pc |-> "none"]

Init ==
    /\ pc = "created"
    /\ STAGE_CI \in BOOLEAN
    /\ rate_limit_timeout \in RateLimitTimeouts
    /\ membership = FALSE
    /\ job_id = 0
    /\ report = NoReport
    /\ db = NoReport
    /\ parameters = Unbound
    /\ attrs = {}
    /\ result = NoResult
    /\ exc = NoExc
    /\ raised = NoExc
    /\ try_raised = NoExc
    /\ calls = <<>>
    /\ logs = <<>>
    /\ end_time_sets = 0
    /\ disable_calls = 0
    /\ org_disabled = FALSE
    /\ clock = 1
    /\ health = NoHealthCheck
    /\ engine = NoEngineTask
    /\ breakers = NoBreakers

\* start(), lines 291-294: bind the job id, look the job up, create the report
Start(j, t) ==
    /\ pc = "created"
    /\ UNCHANGED others
    /\ job_id' = j
    /\ clock' = clock + 1
    /\ IF job_lookup(j)
       THEN /\ report' = generate_empty_report(t, "RUNNING", clock)
            /\ db' = report'
            /\ membership' = has_membership(j)
            /\ calls' = Append(calls, "generate_empty_report")
            /\ Goto("config", NoExc)
       ELSE /\ Goto("done", DoesNotExist)       \* self._job raises
            /\ UNCHANGED <<report, db, membership, calls>>
    /\ UNCHANGED <<STAGE_CI, rate_limit_timeout, parameters, attrs, result,
                   try_raised, logs, end_time_sets, disable_calls, org_disabled>>

\* config(runtime_configuration): the resolver returns ps and they are bound
ConfigOk(ps) ==
    /\ pc = "config"
    /\ UNCHANGED others
    /\ parameters' = [bound |-> TRUE, list |-> ps]
    /\ attrs' = BindAttributes(attrs, ps)
    /\ calls' = Append(calls, "config")
    /\ clock' = clock + 1
    /\ Goto("before_run", NoExc)
    /\ UNCHANGED <<STAGE_CI, membership, rate_limit_timeout, job_id, report, db,
                   result, try_raised, logs, end_time_sets, disable_calls,
                   org_disabled>>

\* config(runtime_configuration): read_configured_params raises e (line 151)
ConfigRaises(e) ==
    /\ pc = "config"
    /\ UNCHANGED others
    /\ calls' = Append(calls, "config")
    /\ clock' = clock + 1
    /\ RaiseInTry(e)
    /\ UNCHANGED <<STAGE_CI, membership, rate_limit_timeout, job_id, report, db,
                   parameters, attrs, result, logs, end_time_sets, disable_calls,
                   org_disabled>>

\* before_run(), the hook of the concrete plugin, returns
BeforeRunOk ==
    /\ pc = "before_run"
    /\ UNCHANGED others
    /\ calls' = Append(calls, "before_run")
    /\ clock' = clock + 1
    /\ Goto("run", NoExc)
    /\ UNCHANGED <<STAGE_CI, membership, rate_limit_timeout, job_id, report, db,
                   parameters, attrs, result, try_raised, logs, end_time_sets,
                   disable_calls, org_disabled>>

\* before_run() raises e
BeforeRunRaises(e) ==
    /\ pc = "before_run"
    /\ UNCHANGED others
    /\ calls' = Append(calls, "before_run")
    /\ clock' = clock + 1
    /\ RaiseInTry(e)
    /\ UNCHANGED <<STAGE_CI, membership, rate_limit_timeout, job_id, report, db,
                   parameters, attrs, result, logs, end_time_sets, disable_calls,
                   org_disabled>>

\* what run() may have appended to self.report.errors before it ends
RunNotes == {<<>>, <<"partial data">>}

\* run() returns content
RunOk(content, notes) ==
    /\ pc = "run"
    /\ UNCHANGED others
    /\ result' = content
    /\ report' = [report EXCEPT !.errors = @ \o notes]
    /\ calls' = Append(calls, "run")
    /\ clock' = clock + 1
    /\ Goto(ElseTarget, NoExc)
    /\ UNCHANGED <<STAGE_CI, membership, rate_limit_timeout, job_id, db,
                   parameters, attrs, try_raised, logs, end_time_sets,
                   disable_calls, org_disabled>>

\* run() raises e
RunRaises(e, notes) ==
    /\ pc = "run"
    /\ UNCHANGED others
    /\ report' = [report EXCEPT !.errors = @ \o notes]
    /\ calls' = Append(calls, "run")
    /\ clock' = clock + 1
    /\ RaiseInTry(e)
    /\ UNCHANGED <<STAGE_CI, membership, rate_limit_timeout, job_id, db,
                   parameters, attrs, result, logs, end_time_sets, disable_calls,
                   org_disabled>>


\* after_run_success(_result), lines 186-207
AfterRunSuccess ==
    /\ pc = "after_run_success"
    /\ UNCHANGED others
    /\ report' = after_run_success_report(report, result)
    /\ db' = Save(db, report', SuccessFields)
    /\ calls' = Append(calls, "after_run_success")
    /\ clock' = clock + 1
    /\ Goto(FinallyTarget(NoExc), NoExc)
    /\ UNCHANGED <<STAGE_CI, membership, rate_limit_timeout, job_id, parameters,
                   attrs, result, try_raised, logs, end_time_sets, disable_calls,
                   org_disabled>>

\* after_run_failed(e), lines 226-245, with the breaker or log_error it calls
AfterRunFailed ==
    /\ pc = "after_run_failed"
    /\ UNCHANGED others
    /\ report' = after_run_failed_report(report, exc)
    /\ clock' = clock + 1
    /\ IF IsRateLimit(exc)
       THEN LET b == disable_for_rate_limit(membership, rate_limit_timeout, parameters)
                pending == IF b.raises # NoExc THEN b.raises ELSE Reraise(STAGE_CI, exc)
            IN  /\ calls' = calls \o <<"after_run_failed", "disable_for_rate_limit">>
                               \o (IF b.disable THEN <<"org_configuration.disable">> ELSE <<>>)
                /\ db' = after_run_failed_row(db, report', b.raises)
                /\ disable_calls' = IF b.disable THEN disable_calls + 1 ELSE disable_calls
                /\ org_disabled' = IF b.disable THEN org_configuration_disable(org_disabled)
                                   ELSE org_disabled
                /\ logs' = logs \o BreakerLogs(b)
                /\ Goto(FinallyTarget(pending), pending)
       ELSE LET pending == Reraise(STAGE_CI, exc)
            IN  /\ calls' = calls \o <<"after_run_failed", "log_error">>
                /\ db' = after_run_failed_row(db, report', NoExc)
                /\ logs' = Append(logs, log_error(exc))
                /\ Goto(FinallyTarget(pending), pending)
                /\ UNCHANGED <<disable_calls, org_disabled>>
    /\ UNCHANGED <<STAGE_CI, membership, rate_limit_timeout, job_id, parameters,
                   attrs, result, try_raised, end_time_sets>>

\* after_run(), lines 179-184; saved tells whether self.report.save() returned
AfterRun(saved) ==
    /\ pc = "after_run"
    /\ UNCHANGED others
    /\ report' = after_run_report(report, clock)
    /\ end_time_sets' = end_time_sets + 1
    /\ db' = IF saved THEN Save(db, report', AllFields) ELSE db
    /\ calls' = Append(calls, "after_run")
    /\ clock' = clock + 1
    /\ Goto("done", IF saved THEN exc ELSE DatabaseError)
    /\ UNCHANGED <<STAGE_CI, membership, rate_limit_timeout, job_id, parameters,
                   attrs, result, try_raised, logs, disable_calls, org_disabled>>

\* __init__, lines 32-44: the task queue constructs the next plugin instance
PluginInit ==
    /\ pc = "done"
    /\ UNCHANGED others
    /\ pc' = "created"
    /\ membership' = FALSE
    /\ job_id' = 0
    /\ report' = NoReport
    /\ db' = NoReport
    /\ parameters' = Unbound
    /\ attrs' = {}
    /\ result' = NoResult
    /\ exc' = NoExc
    /\ raised' = NoExc
    /\ try_raised' = NoExc
    /\ calls' = <<>>
    /\ logs' = <<>>
    /\ end_time_sets' = 0
    /\ disable_calls' = 0
    /\ clock' = 1
    /\ UNCHANGED <<STAGE_CI, rate_limit_timeout, org_disabled>>

Next ==
    \/ \E j \in JobIds, t \in TaskIds : Start(j, t)
    \/ \E ps \in ParamSets : ConfigOk(ps)
    \/ \E e \in RunErrors : ConfigRaises(e)
    \/ BeforeRunOk
    \/ \E e \in RunErrors : BeforeRunRaises(e)
    \/ \E c \in Contents, n \in RunNotes : RunOk(c, n)
    \/ \E e \in RunErrors, n \in RunNotes : RunRaises(e, n)
    \/ AfterRunSuccess
    \/ AfterRunFailed
    \/ \E saved \in BOOLEAN : AfterRun(saved)
    \/ PluginInit

Spec == Init /\ [][Next]_vars


(***************************************************************************)
(* health_check(user)                                                      *)
(***************************************************************************)
\* the start() machine at rest, while another entry point is exercised
LifecycleIdle ==
    /\ pc = "created"
    /\ rate_limit_timeout = Null
    /\ membership = FALSE
    /\ job_id = 0
    /\ report = NoReport
    /\ db = NoReport
    /\ parameters = Unbound
    /\ attrs = {}
    /\ result = NoResult
    /\ exc = NoExc
    /\ raised = NoExc
    /\ try_raised = NoExc
    /\ calls = <<>>
    /\ logs = <<>>
    /\ end_time_sets = 0
    /\ disable_calls = 0
    /\ org_disabled = FALSE
    /\ clock = 1

\* str.lower() on the characters parameter names are written with
LowerChar(c) ==
    CASE c = "U" -> "u" [] c = "R" -> "r" [] c = "L" -> "l"
      [] c = "A" -> "a" [] c = "P" -> "p" [] c = "I" -> "i"
      [] OTHER -> c

Lower(str) == [i \in 1..Len(str) |-> LowerChar(str[i])]

\* name__icontains="url": containment regardless of case
IContains(name, sub) == Contains(Lower(name), Lower(sub))

\* url.startswith("http")
StartsWith(str, prefix) ==
    /\ Len(str) >= Len(prefix)
    /\ SubSeq(str, 1, Len(prefix)) = prefix

HttpPrefix == <<"h", "t", "t", "p">>
HttpUrl == HttpPrefix \o <<":", "/", "/", "a">>
HttpsUrl == HttpPrefix \o <<"s", ":", "/", "/", "b">>
FallbackUrl == HttpPrefix \o <<":", "/", "/", "f">>
FtpUrl == <<"f", "t", "p", ":", "/", "/", "c">>
NoValue == <<>>                                   \* None or ""

\* a parameter as annotate_configured and annotate_value_for_user return it
HealthParameter(name, value, configured) ==
    [name |-> name, value |-> value, configured |-> configured]

HealthParameterUniverse ==
    { HealthParameter(UrlName, HttpUrl, TRUE),
      HealthParameter(<<"A", "P", "I", "_", "U", "R", "L">>, HttpsUrl, TRUE),
      HealthParameter(UrlName, NoValue, TRUE),          \* configured, empty
      HealthParameter(UrlName, HttpsUrl, FALSE),        \* not configured
      HealthParameter(UrlName, FtpUrl, TRUE),           \* not an http url
      HealthParameter(ApiKeyName, HttpUrl, TRUE) }      \* name without "url"

\* the attribute url of the instance: has is hasattr(self, "url")
UrlAttributes == { [has |-> FALSE, value |-> NoValue],
                   [has |-> TRUE, value |-> NoValue],
                   [has |-> TRUE, value |-> FallbackUrl] }

\* _get_health_check_url, lines 360-374; NoValue stands for None
get_health_check_url(params, attr) ==
    LET named == SelectSeq(params, LAMBDA q : IContains(q.name, UrlName))
        usable == SelectSeq(named, LAMBDA q : q.configured /\ q.value # NoValue)
    IN  IF usable # <<>> THEN usable[1].value
        ELSE IF attr.has /\ attr.value # NoValue THEN attr.value
        ELSE NoValue

\* what requests.head may do: answer with a status, or raise
ProbeStatuses == {200, 204, 301, 399, 400, 405, 408, 409, 429, 500, 599}

ProbeErrors == {"ConnectionError", "Timeout", "TooManyRedirects"}

\* response.raise_for_status(): HTTPError for a 4xx or 5xx status
raise_for_status(status) == 400 <= status /\ status < 600

\* variant: the band 400..408 gets no special treatment
head_answer_without_band(status) ==
    IF raise_for_status(status) THEN "False" ELSE "True"

\* health_check, lines 395-412: the outcome when the probe answered
head_answer(status) ==
    IF 400 <= status /\ status <= 408 THEN "True"
    ELSE IF raise_for_status(status) THEN "False"     \* except HTTPError
    ELSE "True"

\* health_check, lines 403-409: the outcome when requests.head raised
head_raised(e) ==
    IF e \in {"ConnectionError", "Timeout", "HTTPError"} THEN "False" ELSE e

\* what requests.head did: kind is "status", with the status, or what it raised
Answer(kind, status) == [kind |-> kind, status |-> status]

\* health_check(user) is called on an instance: its parameters, its url
\* attribute and the settings are whatever the deployment has
InitHealth ==
    /\ LifecycleIdle
    /\ STAGE_CI \in BOOLEAN
    /\ \E ps \in SeqsUpTo(HealthParameterUniverse, MaxParams),
          a \in UrlAttributes, mock \in BOOLEAN :
          health = [pc |-> "called", params |-> ps, attr |-> a,
                    MOCK_CONNECTIONS |-> mock, url |-> NoValue, probes |-> 0,
                    answer |-> Answer("none", 0), outcome |-> "pending"]
    /\ engine = NoEngineTask
    /\ breakers = NoBreakers

\* health_check, lines 386-390 and 412: resolve the url, return at once under
\* STAGE_CI or MOCK_CONNECTIONS, raise NotImplementedError without a http url
HealthCheck ==
    /\ health.pc = "called"
    /\ LET url == get_health_check_url(health.params, health.attr)
       IN  health' =
             IF url # NoValue /\ StartsWith(url, HttpPrefix)
             THEN IF STAGE_CI \/ health.MOCK_CONNECTIONS
                  THEN [health EXCEPT !.url = url, !.pc = "returned", !.outcome = "True"]
                  ELSE [health EXCEPT !.url = url, !.pc = "probing"]
             ELSE [health EXCEPT !.url = url, !.pc = "returned",
                                 !.outcome = "NotImplementedError"]
    /\ UNCHANGED <<lifecycle, STAGE_CI, engine, breakers>>

\* requests.head(url, timeout=10, verify=False) answers with a status
ProbeAnswers(status) ==
    /\ health.pc = "probing"
    /\ health' = [health EXCEPT !.pc = "returned", !.probes = @ + 1,
                                !.answer = Answer("status", status),
                                !.outcome = head_answer(status)]
    /\ UNCHANGED <<lifecycle, STAGE_CI, engine, breakers>>

\* requests.head raises
ProbeRaises(e) ==
    /\ health.pc = "probing"
    /\ health' = [health EXCEPT !.pc = "returned", !.probes = @ + 1,
                                !.answer = Answer(e, 0),
                                !.outcome = head_raised(e)]
    /\ UNCHANGED <<lifecycle, STAGE_CI, engine, breakers>>

NextHealth ==
    \/ HealthCheck
    \/ \E status \in ProbeStatuses : ProbeAnswers(status)
    \/ \E e \in ProbeErrors : ProbeRaises(e)

SpecHealth == InitHealth /\ [][NextHealth]_vars

(***************************************************************************)
(* The task execute_engine_module(job_pk, path)                            *)
(***************************************************************************)
ImportError == Exc("ImportError", Null, "No module named 'engines.missing'")

\* dotted paths handed to import_string: one names an engine module class
EnginePaths == {"engines.evaluation", "engines.missing"}

import_string(path) == path = "engines.evaluation"

\* the fields of the job's data model
DataModelKeys == {"evaluation", "tags"}

DataModels == [DataModelKeys -> {<<>>, <<"old">>}]

\* what an engine module's run() returns: values for some of the fields
ModuleResults == UNION { [K -> {<<>>, <<"new">>}] : K \in SUBSET DataModelKeys }

\* job.data_model.merge(result, append): the fields the result names are
\* replaced, or extended when append is set; the others are kept
merge(data_model, module_result, append) ==
    [k \in DataModelKeys |->
        IF k \in DOMAIN module_result
        THEN IF append THEN data_model[k] \o module_result[k] ELSE module_result[k]
        ELSE data_model[k]]

\* variant: an exception of a step is swallowed and the task goes on
engine_goes_on(step) ==
    CASE step = "Job.objects.get" -> "import_string"
      [] step = "import_string" -> "run"
      [] step = "run" -> "merge"

\* lines 12-15 are in no try statement: an exception of a step ends the task
engine_raise(step) == "failed"

\* line 15: append=False
merge_append == FALSE

\* the task is queued for a job, a path and the data model the job has
InitEngine ==
    /\ LifecycleIdle
    /\ STAGE_CI = FALSE
    /\ health = NoHealthCheck
    /\ breakers = NoBreakers
    /\ \E j \in JobIds, path \in EnginePaths, dm \in DataModels :
          engine = [pc |-> "Job.objects.get", job_pk |-> j, path |-> path,
                    stored |-> dm, data_model |-> dm,
                    module_result |-> <<>>, calls |-> <<>>, merges |-> <<>>,
                    raised |-> NoExc]

\* one step of the task raises e
EngineRaises(step, e) ==
    [engine EXCEPT !.pc = engine_raise(step), !.calls = Append(@, step),
                   !.raised = e]

\* line 12: job = Job.objects.get(pk=job_pk)
LoadJob ==
    /\ engine.pc = "Job.objects.get"
    /\ engine' = IF job_lookup(engine.job_pk)
                 THEN [engine EXCEPT !.pc = "import_string",
                                     !.calls = Append(@, "Job.objects.get")]
                 ELSE EngineRaises("Job.objects.get", DoesNotExist)
    /\ UNCHANGED <<lifecycle, STAGE_CI, health, breakers>>

\* line 13: obj = import_string(path)(job)
LoadModule ==
    /\ engine.pc = "import_string"
    /\ engine' = IF import_string(engine.path)
                 THEN [engine EXCEPT !.pc = "run",
                                     !.calls = Append(@, "import_string")]
                 ELSE EngineRaises("import_string", ImportError)
    /\ UNCHANGED <<lifecycle, STAGE_CI, health, breakers>>

\* line 14: module_result = obj.run()
ModuleRunReturns(module_result) ==
    /\ engine.pc = "run"
    /\ engine' = [engine EXCEPT !.pc = "merge", !.calls = Append(@, "run"),
                                !.module_result = module_result]
    /\ UNCHANGED <<lifecycle, STAGE_CI, health, breakers>>

\* line 14: obj.run() raises, the soft time limit of the task included
ModuleRunRaises(e) ==
    /\ engine.pc = "run"
    /\ engine' = EngineRaises("run", e)
    /\ UNCHANGED <<lifecycle, STAGE_CI, health, breakers>>

\* line 15: job.data_model.merge(module_result, append=False)
Merge ==
    /\ engine.pc = "merge"
    /\ engine' = [engine EXCEPT
                    !.pc = "returned", !.calls = Append(@, "merge"),
                    !.merges = Append(@, [module_result |-> engine.module_result,
                                          append |-> merge_append]),
                    !.data_model = merge(@, engine.module_result, merge_append)]
    /\ UNCHANGED <<lifecycle, STAGE_CI, health, breakers>>

NextEngine ==
    \/ LoadJob
    \/ LoadModule
    \/ \E r \in ModuleResults : ModuleRunReturns(r)
    \/ \E e \in {DeclaredError, TimeoutError, UnexpectedError} : ModuleRunRaises(e)
    \/ Merge

SpecEngine == InitEngine /\ [][NextEngine]_vars

(***************************************************************************)
(* Executions of users of one organization inside disable_for_rate_limit() *)
(* at the same time.  They share the organization configuration row.       *)
(***************************************************************************)
Procs == 1..NProcs

\* the parameters an execution resolved
BreakerParams ==
    { <<>>,
      << Parameter(ApiKeyName, "key", TRUE, TRUE, TRUE) >>,
      << Parameter(ApiKeyName, "key", TRUE, TRUE, FALSE) >> }

OrgConfiguration(disabled, timeout) == [disabled |-> disabled, rate_limit_timeout |-> timeout]

InitConcurrent ==
    /\ LifecycleIdle
    /\ STAGE_CI = FALSE
    /\ health = NoHealthCheck
    /\ engine = NoEngineTask
    /\ \E disabled \in BOOLEAN, timeout \in RateLimitTimeouts,
          ps \in [Procs -> BreakerParams] :
          breakers = [row |-> OrgConfiguration(disabled, timeout),
                      first |-> OrgConfiguration(disabled, timeout),
                      procs |-> [p \in Procs |->
                                   [pc |-> "called", params |-> ps[p],
                                    org_configuration |-> OrgConfiguration(FALSE, Null),
                                    disable_calls |-> 0]]]

\* lines 419-422: get_or_create_org_configuration returns the row as it is now
FetchOrgConfiguration(p) ==
    /\ breakers.procs[p].pc = "called"
    /\ breakers' = [breakers EXCEPT !.procs[p].pc = "fetched",
                                    !.procs[p].org_configuration = breakers.row]
    /\ UNCHANGED <<lifecycle, STAGE_CI, health, engine>>

\* lines 423-440: the checks, on the object fetched
BreakerChecks(p) ==
    /\ breakers.procs[p].pc = "fetched"
    /\ LET me == breakers.procs[p]
           b == disable_for_rate_limit(TRUE, me.org_configuration.rate_limit_timeout,
                                       [bound |-> TRUE, list |-> me.params])
       IN  breakers' = [breakers EXCEPT
                          !.procs[p].pc = IF b.disable THEN "disable" ELSE "done"]
    /\ UNCHANGED <<lifecycle, STAGE_CI, health, engine>>

\* line 434: org_configuration.disable_for_rate_limit()
DisableOrgConfiguration(p) ==
    /\ breakers.procs[p].pc = "disable"
    /\ breakers' = [breakers EXCEPT
                      !.procs[p].pc = "done",
                      !.procs[p].disable_calls = @ + 1,
                      !.row.disabled = org_configuration_disable(@)]
    /\ UNCHANGED <<lifecycle, STAGE_CI, health, engine>>

NextConcurrent ==
    \/ \E p \in Procs : FetchOrgConfiguration(p)
    \/ \E p \in Procs : BreakerChecks(p)
    \/ \E p \in Procs : DisableOrgConfiguration(p)

SpecConcurrent == InitConcurrent /\ [][NextConcurrent]_vars

(***************************************************************************)
(* Properties                                                              *)
(***************************************************************************)
Range(q) == { q[i] : i \in 1..Len(q) }
Count(q, x) == Cardinality({ i \in 1..Len(q) : q[i] = x })
Last(q) == q[Len(q)]
Terminal == {"SUCCESS", "FAILED"}
Finished == pc = "done"
ReportCreated == "generate_empty_report" \in Range(calls)
\* run() was invoked and raised: it is the last call of the try block
RunRaised == "run" \in Range(calls) /\ try_raised # NoExc
RunReturned == "run" \in Range(calls) /\ try_raised = NoExc
BeforeRunRaised ==
    /\ "before_run" \in Range(calls) /\ "run" \notin Range(calls)
    /\ try_raised # NoExc
ConfigRaised ==
    /\ "config" \in Range(calls) /\ "before_run" \notin Range(calls)
    /\ try_raised # NoExc

C2_AfterRunOnceAndLast ==
    /\ (Finished /\ ReportCreated) =>
          /\ Count(calls, "after_run") = 1
          /\ Last(calls) = "after_run"
          /\ end_time_sets = 1
          /\ report.end_time # Null
    /\ ~Finished =>
          /\ "after_run" \notin Range(calls)
          /\ end_time_sets = 0
          /\ report.end_time = Null /\ db.end_time = Null

\* C2 witness: a soft time limit fired in run(), strict mode re-raised it, and
\* after_run still ran last.
C2_Witness ==
    /\ Finished /\ STAGE_CI
    /\ RunRaised /\ try_raised = TimeoutError
    /\ raised = TimeoutError
    /\ Last(calls) = "after_run" /\ report.end_time # Null

\* C3: the status is monotonic: NONE -> RUNNING at creation, then at most one
\* change, RUNNING -> SUCCESS or RUNNING -> FAILED; a terminal status never
\* changes (until the next plugin instance starts with its own report).
StatusStep(old, new) ==
    \/ new = old
    \/ old = "NONE" /\ new = "RUNNING"
    \/ old = "RUNNING" /\ new \in Terminal

C3_StatusMonotonic ==
    [][ \/ (Finished /\ pc' = "created")
        \/ /\ StatusStep(report.status, report'.status)
           /\ StatusStep(db.status, db'.status) ]_vars

\* C3 witness: the status has left RUNNING and the execution goes on.
C3_Witness ==
    /\ pc = "after_run"
    /\ report.status = "FAILED" /\ db.status = "FAILED"
    /\ exc = NoExc


\* C4 as stated: exactly one outcome handler is invoked, the success handler
\* iff run() returned a result and the failure handler iff run() raised
\* (looked at in the executions whose after_run() returned).
C4_Original ==
    (Finished /\ ReportCreated /\ raised \in {NoExc, try_raised}) =>
        /\ Count(calls, "after_run_success") + Count(calls, "after_run_failed") = 1
        /\ ("after_run_success" \in Range(calls) <=> RunReturned)
        /\ ("after_run_failed" \in Range(calls) <=> RunRaised)

\* C4 amended: exactly one outcome handler is invoked, never both and never
\* neither; the success handler iff run() returned a result, the failure
\* handler iff the try block (config, before_run or run) raised.
C4_ExactlyOneHandler ==
    (Finished /\ ReportCreated) =>
        /\ Count(calls, "after_run_success") + Count(calls, "after_run_failed") = 1
        /\ ("after_run_success" \in Range(calls) <=> RunReturned)
        /\ ("after_run_failed" \in Range(calls) <=> try_raised # NoExc)
        /\ (try_raised # NoExc <=> (RunRaised \/ BeforeRunRaised \/ ConfigRaised))

\* C4 witness: before_run() raised, run() was never invoked, and the failure
\* handler ran.
C4_Witness ==
    /\ Finished /\ BeforeRunRaised
    /\ "after_run_failed" \in Range(calls)
    /\ "after_run_success" \notin Range(calls)

\* the text of the spec's scenario for job #9: base64 of the bytes "Man!"
Base64OfManBang == <<"T", "W", "F", "u", "I", "Q", "=", "=">>

\* the normalized form of a result, stated entry by entry
IsNormalizedForm(content, out) ==
    IF content.t = "list"
    THEN /\ out.t = "list"
         /\ Len(out.items) = Len(content.items)
         /\ \A i \in 1..Len(content.items) :
               LET n == content.items[i]
               IN  IF n.t \in {"File", "bytes"}
                   THEN out.items[i] = StrEntry(B64(n.data))
                   ELSE out.items[i] = n
    ELSE out = content

\* C5: once run() has returned and the success handler has run, the stored
\* content is the normalized result (a non-list unchanged; in a list each File
\* or bytes entry replaced by the base64 text of its bytes, the other entries,
\* the order and the length kept), the status is SUCCESS and the handler added
\* nothing to errors.
C5_SuccessContent ==
    (RunReturned /\ pc \in {"after_run", "done"}) =>
        /\ IsNormalizedForm(result, db.report)
        /\ report.report = db.report
        /\ db.status = "SUCCESS" /\ report.status = "SUCCESS"
        /\ report.errors \in RunNotes
        /\ (pc = "after_run" => db.errors = <<>>)
        /\ (result = ListContent(<<FileEntry(<<77, 97, 110, 33>>), StrEntry(<<"o", "k">>)>>)
              => db.report = ListContent(<<StrEntry(Base64OfManBang), StrEntry(<<"o", "k">>)>>))

\* C5 witness: the scenario of job #9, a list of one file and one string, with
\* the store refusing after_run's save, so that the content stored is the one
\* the success handler wrote.
C5_Witness ==
    /\ Finished
    /\ result = ListContent(<<FileEntry(<<77, 97, 110, 33>>), StrEntry(<<"o", "k">>)>>)
    /\ db.status = "SUCCESS"
    /\ raised = DatabaseError

\* C6: when run() raises e, whatever its kind, the failure handler leaves in
\* errors the entries held before followed by exactly one new entry, str(e);
\* the status is FAILED and the content is not written; all of it is in the
\* store when the failure handler ends.
C6_HandlerStep ==
    (pc = "after_run_failed" /\ "run" \in Range(calls)) =>
        /\ report'.errors = report.errors \o <<try_raised.msg>>
        /\ db'.errors = report'.errors
        /\ report'.report = report.report /\ db'.report = db.report

C6_Recorded ==
    (RunRaised /\ pc \in {"after_run", "done"}) =>
        /\ Len(report.errors) >= 1
        /\ Last(report.errors) = try_raised.msg
        /\ Count(report.errors, try_raised.msg) = 1
        /\ db.errors = report.errors
        /\ report.status = "FAILED" /\ db.status = "FAILED"
        /\ report.report = EmptyContent /\ db.report = EmptyContent

C6_FailureRecorded == [][C6_HandlerStep]_vars /\ []C6_Recorded

\* C6 witness: run() had noted an entry in errors and then raised HTTP 429.
C6_Witness ==
    /\ pc = "after_run"
    /\ RunRaised /\ try_raised = Http429
    /\ Len(db.errors) = 2


\* C7: in normal mode an exception raised by run() never leaves start(); in
\* strict mode (STAGE_CI) the failure handler raises that same exception only
\* after the report is stored as FAILED with the error recorded, after_run()
\* runs before the exception leaves start(), and the caller receives it
\* (unless after_run() itself raised, which replaces it).
C7_ReraiseOnlyInStrictMode ==
    /\ (Finished /\ RunRaised /\ ~STAGE_CI) =>
          /\ raised # try_raised
          /\ (db.end_time # Null => raised = NoExc)
    /\ (RunRaised /\ STAGE_CI /\ pc = "after_run") =>
          /\ exc = try_raised
          /\ db.status = "FAILED"
          /\ Len(db.errors) >= 1 /\ Last(db.errors) = try_raised.msg
    /\ (Finished /\ RunRaised /\ STAGE_CI) =>
          /\ Last(calls) = "after_run"
          /\ (db.end_time # Null => raised = try_raised)
          /\ raised \in {try_raised, DatabaseError}

\* C7 witness: strict mode, run() raised an unexpected error, the report was
\* finalized and stored, and the caller received that error.
C7_Witness ==
    /\ Finished /\ STAGE_CI /\ RunRaised
    /\ try_raised = UnexpectedError /\ raised = UnexpectedError
    /\ db.status = "FAILED" /\ db.end_time # Null

\* C8 as stated: an exception raised by before_run() is not recorded in
\* errors, does not mark the report FAILED and reaches the caller of start().
C8_Original ==
    (Finished /\ BeforeRunRaised /\ db.end_time # Null) =>
        /\ try_raised.msg \notin Range(report.errors)
        /\ report.status # "FAILED"
        /\ raised = try_raised

\* C8 amended: an exception raised by before_run() is caught like one raised
\* by run(): the failure handler records it in errors and marks the report
\* FAILED, run() is not invoked, and it reaches the caller only in strict
\* mode; an exception raised by after_run() is not caught and reaches the
\* caller of start().
C8_BeforeRunCaught ==
    /\ (BeforeRunRaised /\ pc \in {"after_run", "done"}) =>
          /\ "after_run_failed" \in Range(calls)
          /\ report.errors = <<try_raised.msg>> /\ db.errors = report.errors
          /\ report.status = "FAILED" /\ db.status = "FAILED"
    /\ (Finished /\ BeforeRunRaised /\ db.end_time # Null) =>
          /\ (STAGE_CI => raised = try_raised)
          /\ (~STAGE_CI => raised = NoExc)
    /\ (Finished /\ ReportCreated /\ db.end_time = Null) => raised = DatabaseError

\* C8 witness: normal mode, before_run() raised a declared error, and start()
\* returned with the report FAILED.
C8_Witness ==
    /\ Finished /\ ~STAGE_CI /\ BeforeRunRaised
    /\ try_raised = DeclaredError
    /\ raised = NoExc
    /\ db.status = "FAILED" /\ db.errors = <<"malformed target">>

\* C9: when the job id resolves to no job, start() raises the lookup failure
\* and nothing else happened: no report exists, no parameter was resolved and
\* no lifecycle step or handler was invoked.
C9_LookupFailure ==
    /\ (job_id \notin ExistingJobs /\ pc # "created") =>
          /\ Finished
          /\ raised = DoesNotExist
          /\ report = NoReport /\ db = NoReport
          /\ parameters = Unbound /\ attrs = {}
          /\ calls = <<>> /\ logs = <<>>
          /\ end_time_sets = 0 /\ disable_calls = 0
    /\ raised = DoesNotExist => job_id \notin ExistingJobs

\* C9 witness: start(9, ...) was called and job 9 does not exist.
C9_Witness ==
    /\ Finished /\ job_id = 9
    /\ raised = DoesNotExist

\* C10: when run() raises an HTTP error with status 429, the user is in an
\* organization whose rate-limit timeout is not null, and no personal API key
\* is in use (no parameter name contains "api_key", or the first such
\* parameter is organization-sourced), the organization configuration's
\* disable action is invoked exactly once in that execution.
NoApiKeyParameter == \A i \in 1..Len(parameters.list) :
                        ~Contains(parameters.list[i].name, ApiKeyText)

FirstApiKeyFromOrg ==
    \E i \in 1..Len(parameters.list) :
        /\ Contains(parameters.list[i].name, ApiKeyText)
        /\ parameters.list[i].is_from_org
        /\ \A k \in 1..(i - 1) : ~Contains(parameters.list[k].name, ApiKeyText)

C10_DisableOnce ==
    ( /\ RunRaised /\ pc \in {"after_run", "done"}
      /\ try_raised.cls = "HTTPError" /\ try_raised.response = <<429>>
      /\ membership /\ rate_limit_timeout # Null
      /\ (NoApiKeyParameter \/ FirstApiKeyFromOrg) ) =>
        /\ disable_calls = 1
        /\ Count(calls, "org_configuration.disable") = 1
        /\ org_disabled

\* C10 witness: the scenario of job #8: timeout 3600 s, an organization key
\* (listed after an url parameter), run() raised HTTP 429, disable invoked once.
C10_Witness ==
    /\ Finished /\ RunRaised /\ try_raised = Http429
    /\ membership /\ rate_limit_timeout = <<3600>>
    /\ Len(parameters.list) = 2
    /\ parameters.list[2] = Parameter(ApiKeyName, "key", TRUE, TRUE, TRUE)
    /\ FirstApiKeyFromOrg
    /\ disable_calls = 1

(***************************************************************************)
(* The circuit breaker's decision.                                         *)
(***************************************************************************)
\* the first parameter, in resolution order, whose name contains "api_key"
FirstApiKey ==
    LET i == CHOOSE i \in 1..Len(parameters.list) :
                 /\ Contains(parameters.list[i].name, ApiKeyText)
                 /\ \A k \in 1..(i - 1) : ~Contains(parameters.list[k].name, ApiKeyText)
    IN  parameters.list[i]

\* the breaker ran in this execution for a member of an organization with a
\* timeout, and the parameters had been resolved
BreakerDecided ==
    /\ pc \in {"after_run", "done"}
    /\ Count(calls, "disable_for_rate_limit") = 1
    /\ membership /\ rate_limit_timeout # Null
    /\ parameters.bound

SkipLogged == \E i \in 1..Len(logs) : /\ logs[i].level = "warning"
                                      /\ logs[i].message.text = "personal key"

\* C11 as stated: when the breaker runs for a user in an organization with a
\* non-null timeout, the disable action is skipped exactly when the api_key
\* parameter exists, is not organization-sourced, and is both required and
\* supplied.
C11_Original ==
    BreakerDecided =>
        (disable_calls = 0 <=> ( /\ ~NoApiKeyParameter
                                 /\ ~FirstApiKey.is_from_org
                                 /\ FirstApiKey.required /\ FirstApiKey.value # "" ))

\* C11 amended: when the breaker runs for a user in an organization with a
\* non-null timeout and the parameters were resolved, the disable action is
\* skipped (and the skip logged) exactly when the first api_key parameter
\* exists, is not organization-sourced, and is required or supplied; in every
\* other combination the disable action is invoked, once.
C11_SkipsForPersonalKey ==
    BreakerDecided =>
        LET skipped == /\ ~NoApiKeyParameter
                       /\ ~FirstApiKey.is_from_org
                       /\ (FirstApiKey.required \/ FirstApiKey.value # "")
        IN  /\ skipped => (disable_calls = 0 /\ SkipLogged)
            /\ ~skipped => (disable_calls = 1 /\ ~SkipLogged)

\* C11 witness: a personal key that is supplied but not required, and a
\* required one that is empty, each spared the organization after a 429.
C11_Witness ==
    /\ Finished /\ BreakerDecided /\ try_raised = Http429
    /\ Len(parameters.list) = 1
    /\ parameters.list[1] \in { Parameter(ApiKeyName, "key", TRUE, FALSE, FALSE),
                                Parameter(ApiKeyName, "", TRUE, TRUE, FALSE) }
    /\ disable_calls = 0 /\ ~org_disabled

\* a step that invokes the organization configuration's disable action
DisableStep ==
    \/ disable_calls' > disable_calls
    \/ Count(calls', "org_configuration.disable") > Count(calls, "org_configuration.disable")
    \/ (org_disabled' /\ ~org_disabled)

C12_DisableStepGuarded ==
    DisableStep => /\ pc = "after_run_failed"
                   /\ membership /\ rate_limit_timeout # Null
                   /\ disable_calls' = disable_calls + 1

C12_NeverWithout ==
    /\ rate_limit_timeout = Null => (~org_disabled /\ disable_calls = 0)
    /\ ~membership => /\ disable_calls = 0
                      /\ Count(calls, "org_configuration.disable") = 0

\* C12: over any sequence of executions and 429 failures, the disable action
\* is invoked only by a failure handler acting for a user with an organization
\* membership whose organization has a non-null rate-limit timeout; with no
\* membership or a null timeout it is never invoked.
C12_DisableOnlyForMemberWithTimeout ==
    [][C12_DisableStepGuarded]_vars /\ []C12_NeverWithout

\* C12 witness: after an earlier execution disabled the plugin for the
\* organization, a user outside it got a 429: the breaker ran and did nothing.
C12_Witness ==
    /\ Finished /\ ~membership /\ job_id = 8
    /\ try_raised = Http429
    /\ Count(calls, "disable_for_rate_limit") = 1
    /\ disable_calls = 0
    /\ org_disabled

(***************************************************************************)
(* Routing and classification of failures.                                 *)
(***************************************************************************)
\* the failure handler of this execution has finished
HandledFailure == pc \in {"after_run", "done"} /\ try_raised # NoExc

IsHttp429 == try_raised.cls = "HTTPError" /\ try_raised.response = <<429>>

\* the records log_error wrote (the breaker writes info and warning only)
ErrorLogs == SelectSeq(logs, LAMBDA l : l.level \in {"error", "exception"})

\* C13: the circuit breaker is invoked only for a failure that is an HTTP
\* error with response status 429; for every other failure (declared error,
\* timeout, HTTP error with another status or no response, unexpected error)
\* it is never invoked and the error is logged by log_error; for a 429 the
\* breaker is invoked and log_error is not.
C13_BreakerOnlyFor429 ==
    /\ Count(calls, "disable_for_rate_limit") > 0 => IsHttp429
    /\ HandledFailure =>
         IF IsHttp429
         THEN /\ Count(calls, "disable_for_rate_limit") = 1
              /\ Count(calls, "log_error") = 0
              /\ ErrorLogs = <<>>
         ELSE /\ Count(calls, "disable_for_rate_limit") = 0
              /\ disable_calls = 0
              /\ Count(calls, "log_error") = 1
              /\ Len(ErrorLogs) = 1
              /\ ErrorLogs[1].message.err = try_raised.msg

\* C13 witness: an HTTP error that carries no response, and one with status
\* 500, were logged and never reached the breaker.
C13_Witness ==
    /\ Finished /\ RunRaised
    /\ try_raised \in {HttpNoResponse, Http500}
    /\ Count(calls, "log_error") = 1
    /\ Count(calls, "disable_for_rate_limit") = 0

\* C17 as stated: a failure not routed to the breaker is logged as expected
\* (error level, plugin-specific message) if and only if its type is in the
\* declared allow-list or it is a soft-time-limit timeout.
C17_Original ==
    (HandledFailure /\ ~IsHttp429) =>
        LET l == ErrorLogs[1]
            expected == try_raised.cls \in get_exceptions_to_catch \cup {"SoftTimeLimitExceeded"}
        IN  /\ expected <=> (l.level = "error" /\ ~l.traceback
                             /\ l.message.text = "config_model error")
            /\ ~expected <=> (l.level = "exception" /\ l.traceback
                              /\ l.message.text = "Unexpected error")

\* C17 amended: a failure not routed to the breaker is logged as expected
\* (error level, plugin-specific message, no stack trace) if and only if its
\* type is in the declared allow-list, it is a soft-time-limit timeout, or it
\* is an HTTP error; every other exception is logged as unexpected, with the
\* stack trace and the generic "Unexpected error" message.
C17_Classification ==
    (HandledFailure /\ ~IsHttp429) =>
        LET l == ErrorLogs[1]
            expected == try_raised.cls \in get_exceptions_to_catch
                                           \cup {"SoftTimeLimitExceeded", "HTTPError"}
        IN  /\ Len(ErrorLogs) = 1
            /\ l.message.err = try_raised.msg
            /\ expected <=> (l.level = "error" /\ ~l.traceback
                             /\ l.message.text = "config_model error")
            /\ ~expected <=> (l.level = "exception" /\ l.traceback
                              /\ l.message.text = "Unexpected error")

\* C17 witness: run() raised an HTTP error with status 500, which is not in
\* the allow-list, and it was logged at error level without a stack trace.
C17_Witness ==
    /\ Finished /\ RunRaised /\ try_raised = Http500
    /\ "HTTPError" \notin get_exceptions_to_catch
    /\ Len(ErrorLogs) = 1
    /\ ErrorLogs[1].level = "error" /\ ~ErrorLogs[1].traceback

(***************************************************************************)
(* The order of the lifecycle steps.                                       *)
(***************************************************************************)
MainSteps == {"generate_empty_report", "config", "before_run", "run",
              "after_run_success", "after_run_failed", "after_run"}

\* the lifecycle steps of this execution, in the order they were invoked
MainCalls == SelectSeq(calls, LAMBDA c : c \in MainSteps)

IsPrefix(p, q) == Len(p) <= Len(q) /\ \A i \in 1..Len(p) : p[i] = q[i]

\* the full order, and the two orders cut short by config or before_run raising
StepOrders ==
    { <<"generate_empty_report", "config", "before_run", "run", h, "after_run">> :
          h \in {"after_run_success", "after_run_failed"} }
    \cup { <<"generate_empty_report", "config", "after_run_failed", "after_run">>,
           <<"generate_empty_report", "config", "before_run", "after_run_failed",
             "after_run">> }

C16_Order ==
    /\ \E o \in StepOrders : IsPrefix(MainCalls, o)
    /\ pc \in {"config", "before_run", "run"} =>
          /\ MainCalls[1] = "generate_empty_report"
          /\ report.status = "RUNNING" /\ db.status = "RUNNING"
          /\ db.task_id \in TaskIds /\ db.start_time # Null
          /\ try_raised = NoExc
    /\ (try_raised # NoExc /\ "run" \notin Range(calls)) =>
          pc \in {"after_run_failed", "after_run", "done"}

C16_Step ==
    /\ calls' # calls => \/ (calls' = <<>> /\ pc' = "created")
                         \/ (IsPrefix(calls, calls') /\ Len(calls') > Len(calls))
    /\ Count(calls', "run") > Count(calls, "run") =>
          /\ pc = "run" /\ try_raised = NoExc
          /\ MainCalls = <<"generate_empty_report", "config", "before_run">>
    /\ (pc \in {"config", "before_run"} /\ try_raised' # NoExc) =>
          /\ pc' = "after_run_failed"
          /\ "run" \notin Range(calls')

\* C16: within one execution the steps occur in the fixed order: the empty
\* report in RUNNING status, config, before_run, run, the outcome handler,
\* after_run; the RUNNING report exists before config, before_run or run
\* executes; and once config or before_run raised, run() is never invoked.
C16_FixedOrder == [][C16_Step]_vars /\ []C16_Order

\* C16 witness: before_run raised; the execution ended having gone through
\* report, config, before_run, failure handler, after_run, without run().
C16_Witness ==
    /\ Finished /\ try_raised = DeclaredError
    /\ MainCalls = <<"generate_empty_report", "config", "before_run",
                     "after_run_failed", "after_run">>

(***************************************************************************)
(* What the outcome handlers persist.                                      *)
(***************************************************************************)
SameExcept(row, new, fields) ==
    \A f \in AllFields \ fields : new[f] = row[f]

C18_HandlerWrites ==
    /\ pc = "after_run_success" =>
          /\ db.status = "RUNNING" /\ db'.status = "SUCCESS"
          /\ db'.report = report'.report
          /\ db'.errors = db.errors /\ db'.end_time = db.end_time
          /\ SameExcept(db, db', {"status", "report"})
    /\ pc = "after_run_failed" =>
          /\ db.status = "RUNNING" /\ db'.status = "FAILED"
          /\ db'.errors = report'.errors
          /\ db'.report = db.report /\ db'.end_time = db.end_time
          /\ SameExcept(db, db', {"status", "errors"})
    /\ (db'.status # db.status /\ db.status = "RUNNING") =>
          pc \in {"after_run_success", "after_run_failed"}

\* C18: the outcome handlers perform only two persisted transitions and each
\* writes only its own fields: RUNNING -> SUCCESS persists status and content
\* and leaves errors and end time as stored; RUNNING -> FAILED persists status
\* and errors and leaves content and end time as stored.
C18_OwnFieldsOnly == [][C18_HandlerWrites]_vars

\* C18 witness: run() noted an error on the report object and returned; after
\* the success handler the stored row is SUCCESS with the content, while the
\* stored errors and end time are still those of the empty report.
C18_Witness ==
    /\ pc = "after_run" /\ try_raised = NoExc
    /\ report.errors = <<"partial data">>
    /\ db.status = "SUCCESS" /\ db.report = report.report
    /\ db.report # EmptyContent
    /\ db.errors = <<>> /\ db.end_time = Null

(***************************************************************************)
(* A failure handler that itself raises.                                   *)
(***************************************************************************)
\* config() raised a 429 before binding the parameters, and the breaker, for
\* a member of an organization with a timeout, read them
BreakerRaised ==
    /\ HandledFailure /\ IsHttp429
    /\ Count(calls, "disable_for_rate_limit") = 1
    /\ membership /\ rate_limit_timeout # Null
    /\ ~parameters.bound

\* C20: on the failure path the report is stored as FAILED with the error
\* appended before the breaker or the logging is invoked: when the breaker
\* raises (it reads parameters that config never bound), the stored report is
\* still FAILED with the original error recorded, and after_run still stamps
\* the end time.
C20_StoredBeforeBreaker ==
    /\ HandledFailure =>
          /\ db.status = "FAILED"
          /\ db.errors # <<>> /\ Last(db.errors) = try_raised.msg
    /\ BreakerRaised =>
          /\ pc = "after_run" => exc = AttributeError
          /\ db.errors = <<"429 Client Error: Too Many Requests">>
          /\ disable_calls = 0 /\ Count(calls, "log_error") = 0
          /\ Finished =>
                /\ Last(calls) = "after_run" /\ end_time_sets = 1
                /\ report.end_time # Null
                /\ raised \in {AttributeError, DatabaseError}
                /\ raised = AttributeError => db.end_time = report.end_time

\* C20 witness: config raised a 429, the breaker raised AttributeError, and
\* start() was left with that exception, the stored report FAILED with the
\* 429 recorded and the end time stamped.
C20_Witness ==
    /\ Finished /\ BreakerRaised /\ ConfigRaised
    /\ try_raised = Http429 /\ raised = AttributeError
    /\ db.status = "FAILED"
    /\ db.errors = <<"429 Client Error: Too Many Requests">>
    /\ db.end_time # Null

(***************************************************************************)
(* health_check                                                            *)
(***************************************************************************)
\* the name contains "url", in whatever case
NameHasUrl(name) ==
    \E i \in 1..(Len(name) - 2) :
        <<LowerChar(name[i]), LowerChar(name[i + 1]), LowerChar(name[i + 2])>> = UrlName

UsableUrlParameter(q) == NameHasUrl(q.name) /\ q.configured /\ q.value # NoValue

\* the probe url: the value of the first usable parameter, else the url
\* attribute of the instance, else none
ProbeUrl ==
    LET ps == health.params
        idx == { i \in 1..Len(ps) : UsableUrlParameter(ps[i]) }
    IN  IF idx # {}
        THEN ps[CHOOSE i \in idx : \A k \in idx : i <= k].value
        ELSE IF health.attr.has THEN health.attr.value ELSE NoValue

Answered == health.pc = "returned" /\ health.probes = 1 /\ health.answer.kind = "status"

\* C14: health_check returns healthy when the probe answers with a 2xx/3xx
\* status or a status in 400..408, unhealthy when the probe produces a
\* connection error, a timeout or another HTTP error status (409 to 599), and
\* raises NotImplementedError, neither healthy nor unhealthy, when there is no
\* probe url; the probe url is the value of the first configured, non-empty
\* parameter whose name contains "url" (in any case), else the url attribute.
C14_HealthCheck ==
    /\ health.pc \in {"probing", "returned"} => health.url = ProbeUrl
    /\ health.pc = "probing" => health.url # NoValue
    /\ health.probes <= 1
    /\ Answered =>
          LET status == health.answer.status
          IN  /\ (200 <= status /\ status <= 399) => health.outcome = "True"
              /\ (400 <= status /\ status <= 408) => health.outcome = "True"
              /\ (409 <= status /\ status <= 599) => health.outcome = "False"
    /\ (health.pc = "returned" /\ health.answer.kind \in {"ConnectionError", "Timeout"}) =>
          health.outcome = "False"
    /\ (health.pc = "returned" /\ ProbeUrl = NoValue) =>
          /\ health.outcome = "NotImplementedError"
          /\ health.probes = 0
    /\ (health.pc = "returned" /\ health.outcome \in {"True", "False"}) =>
          ProbeUrl # NoValue

\* C14 witness: the only parameter named like an url has no value, the url
\* attribute was probed instead, the service answered 405: healthy.
C14_Witness ==
    /\ Answered /\ health.answer.status = 405
    /\ health.params = << HealthParameter(UrlName, NoValue, TRUE) >>
    /\ health.url = FallbackUrl
    /\ health.outcome = "True"

(***************************************************************************)
(* execute_engine_module                                                   *)
(***************************************************************************)
EngineOrder == <<"Job.objects.get", "import_string", "run", "merge">>

\* C19: execute_engine_module loads the job, constructs the module, runs it
\* and merges, in that order, and merges the payload run() returned exactly
\* once with append=False (the fields it names replace the stored ones); when
\* the job lookup, the module load or run() raises, merge is never invoked,
\* the data model is as it was, and the exception leaves the task.
C19_EngineTask ==
    /\ IsPrefix(engine.calls, EngineOrder)
    /\ engine.pc = "returned" =>
          /\ engine.calls = EngineOrder
          /\ engine.raised = NoExc
          /\ engine.merges = << [module_result |-> engine.module_result,
                                 append |-> FALSE] >>
          /\ \A k \in DataModelKeys :
                engine.data_model[k] = IF k \in DOMAIN engine.module_result
                                       THEN engine.module_result[k]
                                       ELSE engine.stored[k]
    /\ engine.pc # "returned" =>
          /\ engine.merges = <<>>
          /\ engine.data_model = engine.stored
    /\ engine.raised # NoExc =>
          /\ engine.pc = "failed"
          /\ "merge" \notin Range(engine.calls)
    /\ engine.pc = "failed" =>
          /\ engine.raised # NoExc
          /\ engine.job_pk \notin ExistingJobs =>
                (engine.raised = DoesNotExist /\ engine.calls = <<"Job.objects.get">>)
          /\ Last(engine.calls) = "run" =>
                engine.raised \in {DeclaredError, TimeoutError, UnexpectedError}

\* C19 witness: the job had tags, run() returned new tags and no evaluation:
\* after the one merge the tags are the new ones alone and the evaluation is
\* the stored one.
C19_Witness ==
    /\ engine.pc = "returned"
    /\ engine.stored = [k \in DataModelKeys |-> <<"old">>]
    /\ DOMAIN engine.module_result = {"tags"}
    /\ engine.data_model["tags"] = <<"new">>
    /\ engine.data_model["evaluation"] = <<"old">>
    /\ Len(engine.merges) = 1

(***************************************************************************)
(* Concurrent disable attempts                                             *)
(***************************************************************************)
\* the execution passes the breaker's checks: its organization has a timeout
\* and it used no personal key
PassesChecks(p) ==
    /\ breakers.first.rate_limit_timeout # Null
    /\ \/ breakers.procs[p].params = <<>>
       \/ breakers.procs[p].params[1].is_from_org

AllDone == \A p \in Procs : breakers.procs[p].pc = "done"

\* the row a single disable leaves
AfterSingleDisable == [breakers.first EXCEPT !.disabled = TRUE]

C15_Outcome ==
    /\ \A p \in Procs :
          /\ breakers.procs[p].disable_calls > 0 => (PassesChecks(p) /\ breakers.row.disabled)
          /\ (breakers.procs[p].pc = "done" /\ PassesChecks(p)) =>
                breakers.procs[p].disable_calls = 1
    /\ AllDone =>
          breakers.row = IF \E p \in Procs : PassesChecks(p)
                         THEN AfterSingleDisable
                         ELSE breakers.first

C15_Step ==
    /\ breakers.row.disabled => breakers'.row = breakers.row
    /\ breakers'.row.rate_limit_timeout = breakers.row.rate_limit_timeout

====
